---- MODULE Spec2Model ----
(***************************************************************************)
(* image-gen-mcp: the generation ledger and the generate / select          *)
(* workflows (tools/generate.ts, tools/select.ts, db/generations.ts,       *)
(* providers/gemini.ts, providers/fal.ts, storage/local.ts, storage/r2.ts),*)
(* the retention sweeper (tools/cleanup.ts), the configure tool            *)
(* (tools/configure.ts), and the path templater and header sanitizer       *)
(* (storage/base.ts).                                                      *)
(*                                                                         *)
(* Spec is the server with generate_images and select_image; SpecConfigure *)
(* adds configure, SpecSweeper adds cleanup_previews over a used preview   *)
(* area, SpecLedger drives the GenerationStore directly with failing saves *)
(* and restarts, SpecSanitize and SpecExpand apply the two pure functions. *)
(* SpecRetention runs generate_images, cleanup_previews and select_image   *)
(* on one server; SpecConcurrent lets select_image invocations overlap at  *)
(* their awaits.                                                           *)
(*                                                                         *)
(* Money is counted in thousandths of a dollar, alert_threshold in         *)
(* percent.  Image bytes are abstract payload tokens <<call time, slot>>,  *)
(* so that two different images never carry equal bytes.  Every tool call  *)
(* reads the clock once and takes one clock tick.                          *)
(***************************************************************************)
EXTENDS Integers, Sequences, FiniteSets, TLC

\* ---------------------------------------------------------------- bounds
MaxGens == 2        \* generate_images calls that reach the provider
MaxCount == 1       \* largest explicit count argument
MaxTime == 3        \* clock ticks explored
MonthLen == 2       \* clock ticks per calendar month
MaxLen == 3         \* longest text given to the sanitizer, largest maxLength
MaxInFlight == 2    \* select_image invocations begun in one run
MaxTemplate == 3    \* longest path template, in pieces

\* ------------------------------------------------------ program constants
AlertThresholdPct == 80      \* config.budget.alert_threshold (0.8)
GeminiCostPerImage == 39     \* MODEL_COSTS['gemini-2.5-flash-image']
FalCostPerImage == 3         \* MODEL_COSTS['fal-ai/flux/schnell']

Null == <<>>
Some(x) == <<x>>

\* ------------------------------------------------------------- variables
VARIABLES
  config,     \* the Config loaded once at server start
  ledger,     \* GenerationStore: sequence of generation rows, id = position
  files,      \* preview area: function from existing file path to its bytes
  dirs,       \* preview area: names of the existing generation directories
  blob,       \* Blob Store: function from stored key to the object's bytes
  written,    \* history: every preview path ever written, with its bytes
  now,        \* wall clock
  last,       \* the last tool call: arguments, environment, effects, response
  configFile, \* config.yaml on disk
  mtimes,     \* preview area: last-modified time of each generation directory
  area,       \* preview area: whether it exists, and the entries in it that
              \* this server run did not make
  disk,       \* the database file: the rows of the last snapshot written
  acked,      \* history: the Ledger as of the last store call that returned
  pure,       \* input and output of the pure function under study
  running     \* the select_image invocations begun, each with its position

vars == <<config, ledger, files, dirs, blob, written, now, last,
          configFile, mtimes, area, disk, acked, pure, running>>

Month(t) == t \div MonthLen

\* ------------------------------------------------------------------ helpers
RECURSIVE SeqSum(_)
SeqSum(s) == IF s = <<>> THEN 0 ELSE Head(s) + SeqSum(Tail(s))

RECURSIVE SetToSortedSeq(_)
SetToSortedSeq(S) ==
  IF S = {} THEN <<>>
  ELSE LET m == CHOOSE x \in S : \A y \in S : x <= y
       IN <<m>> \o SetToSortedSeq(S \ {m})

Range(s) == {s[k] : k \in 1..Len(s)}

\* ------------------------------------------------------------- providers
\* A data URL `data:<mime>;base64,<payload>`, or a bare remote URL.
DataUrl(mime, payload) == [kind |-> "data", mimeType |-> mime, payload |-> payload]
RemoteUrl(payload) == [kind |-> "remote", mimeType |-> "", payload |-> payload]

\* GeminiProvider.generate: one API request per slot i in 0..count-1; slots
\* whose response carries no inline image are skipped, the area keep their
\* slot number as index.  `present` is the set of slots that produced an
\* image, `mime` the mime type the API reported.
GeminiGenerate(count, present, mime, t) ==
  LET slots == SetToSortedSeq(present)
      images == [k \in 1..Len(slots) |->
                  [index |-> slots[k], url |-> DataUrl(mime, <<t, slots[k]>>)]]
  IN IF Len(images) = 0
     THEN [threw |-> TRUE, error |-> "No images generated", images |-> <<>>,
           cost |-> 0, provider |-> "gemini"]
     ELSE [threw |-> FALSE, error |-> "", images |-> images,
           cost |-> GeminiCostPerImage * Len(images), provider |-> "gemini"]

\* FalProvider.generate: the images of the response, numbered by position,
\* each a remote URL; cost is per requested image.
FalGenerate(count, t) ==
  [threw |-> FALSE, error |-> "",
   images |-> [k \in 1..count |-> [index |-> k - 1, url |-> RemoteUrl(<<t, k - 1>>)]],
   cost |-> FalCostPerImage * count, provider |-> "fal"]

\* The upstream API call failing (auth, rate limit, timeout).
ProviderApiError ==
  [threw |-> TRUE, error |-> "UpstreamProviderError", images |-> <<>>,
   cost |-> 0, provider |-> ""]

\* What ctx.provider.generate can answer for a request of `count` images.
ProviderResults(name, count, t) ==
  IF name = "gemini"
  THEN {GeminiGenerate(count, present, mime, t) :
          present \in SUBSET (0..(count - 1)), mime \in {"image/png", "image/jpeg"}}
  ELSE {FalGenerate(count, t)}

\* ------------------------------------------------------ Generation Ledger
ProviderModel(name) ==
  IF name = "gemini" THEN "gemini-2.5-flash-image" ELSE "fal-ai/flux/schnell"

\* GenerationStore.createGeneration: a fresh id, created_at = now, one
\* generations row and one images row per image, in the order given.
createGeneration(db, data, t) ==
  LET id == Len(db) + 1
  IN Append(db,
       [id |-> id, provider |-> data.provider, model |-> data.model,
        count |-> data.count, cost |-> data.cost, created_at |-> t,
        selected_index |-> Null, selected_at |-> Null,
        storage_key |-> Null, public_url |-> Null,
        images |-> [k \in 1..Len(data.images) |->
                      [generation_id |-> id,
                       index_num |-> data.images[k].index_num,
                       preview_url |-> data.images[k].preview_url]]])

\* SELECT * FROM images WHERE generation_id = ? ORDER BY index_num
RECURSIVE OrderByIndexNum(_)
OrderByIndexNum(rows) ==
  IF rows = <<>> THEN <<>>
  ELSE LET k == CHOOSE k \in 1..Len(rows) :
                  \A j \in 1..Len(rows) :
                     \/ rows[k].index_num < rows[j].index_num
                     \/ rows[k].index_num = rows[j].index_num /\ k <= j
       IN <<rows[k]>> \o
          OrderByIndexNum([j \in 1..(Len(rows) - 1) |->
                             IF j < k THEN rows[j] ELSE rows[j + 1]])

\* getGeneration without its `return null`: an unknown id yields a row object
\* with every column undefined.
getGeneration_emptyRow(db, id) ==
  IF id \in 1..Len(db)
  THEN Some([db[id] EXCEPT !.images = OrderByIndexNum(db[id].images)])
  ELSE Some([id |-> id, provider |-> "", model |-> "", count |-> 0, cost |-> 0,
             created_at |-> 0, selected_index |-> Null, selected_at |-> Null,
             storage_key |-> Null, public_url |-> Null, images |-> <<>>])

\* GenerationStore.getGeneration: Null when no row has the id; otherwise the
\* row with its images ordered by index_num.  When the generation has no
\* image rows the code leaves `images` undefined, which is <<>> here (the
\* code never produces an empty array).
getGeneration(db, id) ==
  IF id \in 1..Len(db)
  THEN Some([db[id] EXCEPT !.images = OrderByIndexNum(db[id].images)])
  ELSE Null

\* markSelected whose UPDATE has no WHERE clause.
markSelected_noWhere(db, id, index, storageKey, publicUrl, t) ==
  [g \in 1..Len(db) |->
     [db[g] EXCEPT !.selected_index = Some(index), !.selected_at = Some(t),
                   !.storage_key = Some(storageKey),
                   !.public_url = Some(publicUrl)]]

\* markSelected whose UPDATE also clears the cost column.
markSelected_clearsCost(db, id, index, storageKey, publicUrl, t) ==
  [g \in 1..Len(db) |->
     IF db[g].id = id
     THEN [db[g] EXCEPT !.selected_index = Some(index), !.selected_at = Some(t),
                        !.storage_key = Some(storageKey),
                        !.public_url = Some(publicUrl), !.cost = 0]
     ELSE db[g]]

\* markSelected whose UPDATE carries AND selected_index IS NULL: a selected
\* generation keeps its first selection.
markSelected_keepsFirst(db, id, index, storageKey, publicUrl, t) ==
  [g \in 1..Len(db) |->
     IF db[g].id = id /\ db[g].selected_index = Null
     THEN [db[g] EXCEPT !.selected_index = Some(index), !.selected_at = Some(t),
                        !.storage_key = Some(storageKey),
                        !.public_url = Some(publicUrl)]
     ELSE db[g]]

\* GenerationStore.markSelected: UPDATE generations SET ... WHERE id = ?
markSelected(db, id, index, storageKey, publicUrl, t) ==
  [g \in 1..Len(db) |->
     IF db[g].id = id
     THEN [db[g] EXCEPT !.selected_index = Some(index), !.selected_at = Some(t),
                        !.storage_key = Some(storageKey),
                        !.public_url = Some(publicUrl)]
     ELSE db[g]]

\* GenerationStore.save: writeFileSync(dbPath, export()).  writeFileSync opens
\* the file with truncation and then writes: it either completes ("done"),
\* fails before it has opened the file ("refused"), or stops between the
\* truncation and the write ("cut"), which leaves a file of zero bytes.
save(db, file, write) ==
  CASE write = "done" -> [threw |-> FALSE, file |-> db]
    [] write = "refused" -> [threw |-> TRUE, file |-> file]
    [] write = "cut" -> [threw |-> TRUE, file |-> <<>>]

\* GenerationStore.init: the database is the content of the file (a missing
\* or zero-byte file is an empty database); the schema is run and the
\* database saved.
init(file) == [db |-> file, file |-> file]

\* getCosts that forgets its WHERE clause: every row counts, whatever `since`.
getCosts_ignoresSince(db, since) ==
  LET SumWhere(Test(_)) ==
        SeqSum([k \in 1..Len(db) |-> IF Test(db[k]) THEN db[k].cost ELSE 0])
      All(g) == TRUE
  IN [total |-> SumWhere(All),
      generation_count |-> Len(db),
      by_provider |-> [p \in {db[k].provider : k \in 1..Len(db)} |->
                         LET IsP(g) == g.provider = p IN SumWhere(IsP)],
      by_model |-> [m \in {db[k].model : k \in 1..Len(db)} |->
                      LET IsM(g) == g.model = m IN SumWhere(IsM)]]

\* GenerationStore.getCosts: rows with created_at >= since (all rows when
\* since is Null), summed, counted, and grouped by provider and by model.
getCosts(db, since) ==
  LET InWindow(g) == since = Null \/ g.created_at >= since[1]
      rows == SelectSeq(db, InWindow)
      SumWhere(Test(_)) ==
        SeqSum([k \in 1..Len(rows) |-> IF Test(rows[k]) THEN rows[k].cost ELSE 0])
      All(g) == TRUE
      providers == {rows[k].provider : k \in 1..Len(rows)}
      models == {rows[k].model : k \in 1..Len(rows)}
  IN [total |-> SumWhere(All),
      generation_count |-> Len(rows),
      by_provider |-> [p \in providers |->
                         LET IsP(g) == g.provider = p IN SumWhere(IsP)],
      by_model |-> [m \in models |->
                      LET IsM(g) == g.model = m IN SumWhere(IsM)]]

\* ------------------------------------------------------------ tool calls
NoArgs ==
  [generation_id |-> 0, index |-> 0, cleanup_others |-> "omitted",
   filename |-> Null, count |-> Null,
   older_than_days |-> Null, dry_run |-> "omitted"]

\* What a cleanup_previews call found, did and answered.
NoSweep ==
  [readFault |-> FALSE, failedAt |-> 0, cutoff |-> 0, candidates |-> <<>>,
   would_delete |-> Null, previews |-> <<>>, more |-> Null,
   deleted_count |-> Null, errors |-> <<>>]

NoCall ==
  [op |-> "none", at |-> -1, args |-> NoArgs,
   providerFault |-> FALSE, writeFault |-> 0, uploadFault |-> FALSE,
   unlinkFaults |-> {}, provided |-> <<>>,
   outcome |-> "none", error |-> "",
   providerCalls |-> 0, uploads |-> <<>>, marks |-> <<>>,
   deleteAttempts |-> <<>>, unlinkCalls |-> <<>>, rmdirCalls |-> <<>>,
   generation_id |-> Null, images |-> <<>>, cost |-> 0, budget_warning |-> Null,
   storage_key |-> Null, deleted_previews |-> 0, retained_previews |-> <<>>,
   sweep |-> NoSweep]

\* No pure function under study.
NoPure == [fn |-> "none"]

\* The part of the state a tool call works on.
State == [ledger |-> ledger, files |-> files, dirs |-> dirs, blob |-> blob,
          written |-> written, mtimes |-> mtimes, area |-> area]

\* ------------------------------------------------- Generation Workflow
\* dataUrlToBuffer: the mime type and the decoded bytes of a data URL, Null
\* for anything else.
dataUrlToBuffer(url) ==
  IF url.kind = "data"
  THEN Some([mimeType |-> url.mimeType, buffer |-> url.payload])
  ELSE Null

\* join(generationDir, `${index}.${ext}`)
PreviewPath(dir, index, mimeType) ==
  [scheme |-> "file", dir |-> dir, name |-> index,
   ext |-> IF mimeType = "image/jpeg" THEN "jpg" ELSE "png"]

\* monthStart: setDate(1), setHours(0, 0, 0, 0) on the current instant.
MonthStart(t) == Month(t) * MonthLen

\* costs.total >= monthly_limit * alert_threshold
budgetExceeded(total, budget) ==
  total * 100 >= budget.monthly_limit * budget.alert_threshold

\* The record of a generate_images call that has called the provider once.
GenerateCall(args, t) ==
  [NoCall EXCEPT !.op = "generate", !.at = t, !.args = args, !.providerCalls = 1]

\* generateImages from the preview directory on: what the call does once the
\* provider has answered.  `writeFailAt` is the position in result.images
\* whose writeFileSync throws (0: none).
generateImagesAfterProvider(st, cfg, args, result, writeFailAt, t) ==
  LET count == IF args.count = Null THEN cfg.defaults.count ELSE args.count[1]
      \* what the provider returned: each image's index and, for a remote
      \* image, its URL
      call0 == [GenerateCall(args, t) EXCEPT
                  !.provided = [k \in 1..Len(result.images) |->
                                  [index |-> result.images[k].index,
                                   remote |-> IF dataUrlToBuffer(result.images[k].url) = Null
                                              THEN Some(result.images[k].url)
                                              ELSE Null]]]
  IN
       LET generationDir == t
           dirs1 == st.dirs \cup {generationDir}
           IsData(img) == dataUrlToBuffer(img.url) # Null
           writeThrows == /\ writeFailAt \in 1..Len(result.images)
                          /\ IsData(result.images[writeFailAt])
           tried == [k \in 1..Len(result.images) |->
                       [img |-> result.images[k], pos |-> k]]
           Kept(e) == IsData(e.img) /\ (~writeThrows \/ e.pos < writeFailAt)
           kept == SelectSeq(tried, Kept)
           savedImages ==
             [k \in 1..Len(kept) |->
                LET data == dataUrlToBuffer(kept[k].img.url)[1]
                IN [index |-> kept[k].img.index,
                    localPath |-> PreviewPath(generationDir, kept[k].img.index,
                                              data.mimeType),
                    buffer |-> data.buffer]]
           newPaths == {savedImages[k].localPath : k \in 1..Len(savedImages)}
           files1 == [p \in DOMAIN st.files \cup newPaths |->
                        IF p \in newPaths
                        THEN savedImages[
                               CHOOSE k \in 1..Len(savedImages) :
                                 savedImages[k].localPath = p
                                 /\ \A j \in (k + 1)..Len(savedImages) :
                                      savedImages[j].localPath # p].buffer
                        ELSE st.files[p]]
           written1 == [p \in DOMAIN st.written \cup newPaths |->
                          IF p \in newPaths THEN files1[p] ELSE st.written[p]]
           \* mkdirSync and the writes into the new directory stamp it
           mtimes1 == [d \in dirs1 |->
                         IF d = generationDir THEN t ELSE st.mtimes[d]]
           \* mkdirSync(generationDir, {recursive: true}) makes the preview
           \* area too
           st1 == [st EXCEPT !.dirs = dirs1, !.files = files1,
                             !.written = written1, !.mtimes = mtimes1,
                             !.area.exists = TRUE]
       IN IF writeThrows
          THEN [st |-> st1,
                call |-> [call0 EXCEPT !.writeFault = writeFailAt,
                                       !.outcome = "WriteError",
                                       !.error = "writeFileSync"]]
          ELSE
            LET ledger1 ==
                  createGeneration(st.ledger,
                    [provider |-> result.provider,
                     model |-> ProviderModel(result.provider),
                     count |-> count, cost |-> result.cost,
                     images |-> [k \in 1..Len(savedImages) |->
                                   [index_num |-> savedImages[k].index,
                                    preview_url |-> savedImages[k].localPath]]],
                    t)
                generation == ledger1[Len(ledger1)]
                costs == getCosts(ledger1, Some(MonthStart(t)))
                budgetWarning ==
                  IF budgetExceeded(costs.total, cfg.budget)
                  THEN Some([total |-> costs.total,
                             monthly_limit |-> cfg.budget.monthly_limit])
                  ELSE Null
            IN [st |-> [st1 EXCEPT !.ledger = ledger1],
                call |-> [call0 EXCEPT
                            !.outcome = "ok",
                            !.generation_id = Some(generation.id),
                            !.images = [k \in 1..Len(savedImages) |->
                                          [index |-> savedImages[k].index,
                                           preview_url |-> savedImages[k].localPath]],
                            !.cost = result.cost,
                            !.budget_warning = budgetWarning]]

\* generateImages that makes the preview directory before it calls the
\* provider.
generateImages_mkdirBeforeProvider(st, cfg, args, result, writeFailAt, t) ==
  IF result.threw
  THEN [st |-> [st EXCEPT !.area.exists = TRUE, !.dirs = st.dirs \cup {t},
                          !.mtimes = [d \in st.dirs \cup {t} |->
                                        IF d = t THEN t ELSE st.mtimes[d]]],
        call |-> [GenerateCall(args, t) EXCEPT !.providerFault = TRUE,
                                               !.outcome = "ProviderError",
                                               !.error = result.error]]
  ELSE generateImagesAfterProvider(st, cfg, args, result, writeFailAt, t)

\* generateImages(args, ctx).  `result` is the provider's answer, t the instant
\* of the call.  Returns the new state and the record of the call.
generateImages(st, cfg, args, result, writeFailAt, t) ==
  IF result.threw
  THEN [st |-> st,
        call |-> [GenerateCall(args, t) EXCEPT !.providerFault = TRUE,
                                               !.outcome = "ProviderError",
                                               !.error = result.error]]
  ELSE generateImagesAfterProvider(st, cfg, args, result, writeFailAt, t)

\* --------------------------------------------------------------- Blob Store
\* generateStoragePath with the default template {year}/{month}/{filename}.
generateStoragePath(filename, t) == [month |-> Month(t), filename |-> filename]

\* An upload that swallows the store's error and answers as if it had stored.
storageUpload_swallowsError(store, options, fails, t) ==
  LET key == generateStoragePath(options.filename, t)
  IN [threw |-> FALSE, error |-> "",
      store |-> IF fails THEN store
                ELSE [k \in DOMAIN store \cup {key} |->
                        IF k = key THEN options.buffer ELSE store[k]],
      key |-> key, publicUrl |-> <<"public", key>>]

\* StorageProvider.upload (LocalStorage, R2Storage): put the bytes under the
\* templated key, replacing what was there; or throw, storing nothing.
storageUpload(store, options, fails, t) ==
  LET key == generateStoragePath(options.filename, t)
  IN IF fails
     THEN [threw |-> TRUE, error |-> "UpstreamStorageError", store |-> store,
           key |-> key, publicUrl |-> <<"public", key>>]
     ELSE [threw |-> FALSE, error |-> "",
           store |-> [k \in DOMAIN store \cup {key} |->
                        IF k = key THEN options.buffer ELSE store[k]],
           key |-> key, publicUrl |-> <<"public", key>>]

\* --------------------------------------------------------- Header Sanitizer
\* A text is a sequence of UTF-16 code units.
Tab == 9
Space == 32
Printable == 32..126

\* The concatenation of F(s[1]), F(s[2]), ...
FlatMap(s, F(_)) ==
  LET f[k \in 0..Len(s)] == IF k = 0 THEN <<>> ELSE f[k - 1] \o F(s[k])
  IN f[Len(s)]

\* .replace(/[\t\n\r]/g, ' ')
normalizeWhitespace(text) ==
  [k \in 1..Len(text) |-> IF text[k] \in {9, 10, 13} THEN Space ELSE text[k]]

\* the table of unicode punctuation with its ASCII equivalents
asciiEquivalent(c) ==
  CASE c \in {8216, 8217} -> <<39>>
    [] c \in {8220, 8221} -> <<34>>
    [] c = 8212 -> <<45, 45>>
    [] c = 8211 -> <<45>>
    [] c = 8230 -> <<46, 46, 46>>
    [] c = 160 -> <<Space>>
    [] c \in {8226, 8227, 9702} -> <<42>>
    [] c = 183 -> <<45>>
    [] OTHER -> <<c>>

replaceUnicode(text) == FlatMap(text, asciiEquivalent)

\* A strip that lets the Latin-1 letters through.
stripNonAscii_keepsLatin1(text) ==
  SelectSeq(text, LAMBDA c : c \in Printable \/ c \in 192..255)

\* .replace(/[^\x20-\x7E]/g, '')
stripNonAscii(text) == SelectSeq(text, LAMBDA c : c \in Printable)

\* the characters that \s matches, among those that the strip lets through
isWhitespace(c) == c \in {9, 10, 11, 12, 13, Space, 160}

\* .replace(/\s+/g, ' ')
RECURSIVE collapseSpaces(_)
collapseSpaces(text) ==
  IF text = <<>> THEN <<>>
  ELSE IF isWhitespace(Head(text))
       THEN IF Tail(text) # <<>> /\ isWhitespace(Head(Tail(text)))
            THEN collapseSpaces(Tail(text))
            ELSE <<Space>> \o collapseSpaces(Tail(text))
       ELSE <<Head(text)>> \o collapseSpaces(Tail(text))

\* .trim()
RECURSIVE trimStart(_)
trimStart(text) ==
  IF text # <<>> /\ isWhitespace(Head(text)) THEN trimStart(Tail(text)) ELSE text

RECURSIVE trimEnd(_)
trimEnd(text) ==
  IF text # <<>> /\ isWhitespace(text[Len(text)])
  THEN trimEnd(SubSeq(text, 1, Len(text) - 1)) ELSE text

trim(text) == trimEnd(trimStart(text))

\* .slice(0, maxLength), for maxLength >= 0
slice(text, maxLength) ==
  SubSeq(text, 1, IF maxLength < Len(text) THEN maxLength ELSE Len(text))

\* sanitizeForHeader(text, maxLength)
sanitizeForHeader(text, maxLength) ==
  slice(trim(collapseSpaces(stripNonAscii(replaceUnicode(
          normalizeWhitespace(text))))), maxLength)

\* ------------------------------------------------------------ Path Templater
\* A template and a filename are sequences of pieces: a token, or literal
\* text without braces or dollar signs; in a filename also the replacement
\* patterns `$&` and `$$`.
Tokens == {"{year}", "{month}", "{day}", "{filename}"}

\* n.toString().padStart(2, '0')
padStart2(n) == IF n < 10 THEN <<"0", ToString(n)>> ELSE <<ToString(n)>>

\* What String.prototype.replace makes of a replacement string: `$&` is the
\* matched text, `$$` a dollar sign.
replacementText(replacement, matched) ==
  FlatMap(replacement,
          LAMBDA piece : CASE piece = "$&" -> <<matched>>
                           [] piece = "$$" -> <<"$">>
                           [] OTHER -> <<piece>>)

\* str.replace(token, replacement) with a string pattern: the first
\* occurrence only.
replaceFirst(str, token, replacement) ==
  IF \E k \in 1..Len(str) : str[k] = token
  THEN LET k == CHOOSE k \in 1..Len(str) :
                  str[k] = token /\ \A j \in 1..(k - 1) : str[j] # token
       IN SubSeq(str, 1, k - 1) \o replacementText(replacement, token)
            \o SubSeq(str, k + 1, Len(str))
  ELSE str

\* generateStoragePath(template, filename) at the date `date`
expandTemplate(template, filename, date) ==
  replaceFirst(
    replaceFirst(
      replaceFirst(
        replaceFirst(template, "{year}", <<ToString(date.year)>>),
        "{month}", padStart2(date.month)),
      "{day}", padStart2(date.day)),
    "{filename}", filename)

\* --------------------------------------------------- Selection Workflow
\* readLocalImage without the existsSync guard: a missing file reads as empty.
readLocalImage_noExistsCheck(fs, filePath) ==
  [threw |-> FALSE,
   buffer |-> IF filePath \in DOMAIN fs THEN fs[filePath] ELSE <<>>]

\* readLocalImage: throws when the file does not exist, else its bytes.
readLocalImage(fs, filePath) ==
  IF filePath \notin DOMAIN fs
  THEN [threw |-> TRUE, buffer |-> <<>>]
  ELSE [threw |-> FALSE, buffer |-> fs[filePath]]

isLocalPath(path) == path.scheme \notin {"http", "https", "data"}

\* `!generation.images || args.index >= generation.images.length`
indexRejected(generation, index) ==
  generation.images = <<>> \/ index >= Len(generation.images)

\* The cleanup test without `cleanupOthers ||`: only the selected index goes.
deletesPreview_onlySelected(cleanupOthers, img, index) ==
  img.index_num = index

\* `cleanupOthers || img.index_num === args.index`
deletesPreview(cleanupOthers, img, index) ==
  cleanupOthers \/ img.index_num = index

\* What selectImage hands to storage.upload: the bytes read, the filename
\* given or `${slug}-${Date.now()}.${ext}`, and the content type of the
\* preview's extension.
uploadOptions(args, selectedImage, buffer, t) ==
  LET ext == selectedImage.preview_url.ext
      filename == IF args.filename # Null
                  THEN [name |-> args.filename[1], stamp |-> -1, ext |-> ""]
                  ELSE [name |-> "slug", stamp |-> t, ext |-> ext]
  IN [buffer |-> buffer, filename |-> filename,
      contentType |-> IF ext = "png" THEN "image/png" ELSE "image/jpeg"]

\* The cleanup loop of selectImage over the images of the generation as it
\* was read at the start of the call, and the rmdir after it: the preview
\* area afterwards and what the loop attempted, removed and retained.
cleanupLocalPreviews(st, generation, args, unlinkFails, t) ==
  LET cleanupOthers == args.cleanup_others # "false"
      IsLocal(img) == isLocalPath(img.preview_url)
      locals == SelectSeq(generation.images, IsLocal)
      Deletes(img) == deletesPreview(cleanupOthers, img, args.index)
      Retains(img) == ~Deletes(img)
      attempts == SelectSeq(locals, Deletes)
      Exists(img) == img.preview_url \in DOMAIN st.files
      unlinks == SelectSeq(attempts, Exists)
      Removed(img) == img.preview_url \notin unlinkFails
      deleted == SelectSeq(unlinks, Removed)
      retained == SelectSeq(locals, Retains)
      gone == {deleted[k].preview_url : k \in 1..Len(deleted)}
      files1 == [p \in DOMAIN st.files \ gone |-> st.files[p]]
      previewDir == IF locals = <<>> THEN Null
                    ELSE Some(locals[1].preview_url.dir)
      rmdirs == IF previewDir # Null /\ cleanupOthers
                THEN previewDir ELSE <<>>
      \* rmdirSync removes the directory only when it exists and is
      \* empty; any error is swallowed
      dirs1 == {d \in st.dirs :
                  ~ /\ <<d>> = rmdirs
                    /\ \A p \in DOMAIN files1 : p.dir # d}
      \* removing an entry of a directory stamps the directory
      mtimes1 == [d \in dirs1 |->
                    IF \E p \in gone : p.dir = d THEN t
                    ELSE st.mtimes[d]]
  IN [files |-> files1, dirs |-> dirs1, mtimes |-> mtimes1,
      unlinkFaults |-> {unlinks[k].preview_url : k \in 1..Len(unlinks)}
                         \cap unlinkFails,
      deleteAttempts |-> [k \in 1..Len(attempts) |-> attempts[k].preview_url],
      unlinkCalls |-> [k \in 1..Len(unlinks) |-> unlinks[k].preview_url],
      rmdirCalls |-> rmdirs,
      deleted_previews |-> Len(deleted),
      retained_previews |-> [k \in 1..Len(retained) |-> retained[k].preview_url]]

\* selectImage(args, ctx).  uploadFails: the Blob Store rejects the upload;
\* unlinkFails: the preview paths whose unlinkSync throws; t: the instant of
\* the call.  Returns the new state and the record of the call.
selectImage(st, args, uploadFails, unlinkFails, t) ==
  LET cleanupOthers == args.cleanup_others # "false"
      call0 == [NoCall EXCEPT !.op = "select", !.at = t, !.args = args]
      found == getGeneration(st.ledger, args.generation_id)
  IN IF found = Null
     THEN [st |-> st, call |-> [call0 EXCEPT !.outcome = "NotFound",
                                             !.error = "Generation not found"]]
     ELSE
     LET generation == found[1] IN
     IF indexRejected(generation, args.index)
     THEN [st |-> st, call |-> [call0 EXCEPT !.outcome = "InvalidIndex",
                                             !.error = "Invalid image index"]]
     ELSE IF args.index < 0
     \* generation.images[args.index] is undefined; reading its preview_url
     \* throws a TypeError
     THEN [st |-> st, call |-> [call0 EXCEPT !.outcome = "TypeError",
                                             !.error = "Cannot read properties of undefined"]]
     ELSE
     LET selectedImage == generation.images[args.index + 1]
         read == readLocalImage(st.files, selectedImage.preview_url)
     IN IF read.threw
        THEN [st |-> st, call |-> [call0 EXCEPT !.outcome = "PreviewMissing",
                                                !.error = "Preview file not found"]]
        ELSE
        LET options == uploadOptions(args, selectedImage, read.buffer, t)
            up == storageUpload(st.blob, options, uploadFails, t)
            call1 == [call0 EXCEPT !.uploadFault = uploadFails,
                                   !.uploads = <<[buffer |-> options.buffer,
                                                  key |-> up.key]>>]
        IN IF up.threw
           THEN [st |-> st, call |-> [call1 EXCEPT !.outcome = "UploadError",
                                                   !.error = up.error]]
           ELSE
           LET ledger1 == markSelected(st.ledger, args.generation_id,
                                       args.index, up.key, up.publicUrl, t)
               cl == cleanupLocalPreviews(st, generation, args, unlinkFails, t)
           IN [st |-> [st EXCEPT !.blob = up.store, !.ledger = ledger1,
                                 !.files = cl.files, !.dirs = cl.dirs,
                                 !.mtimes = cl.mtimes],
               call |-> [call1 EXCEPT
                  !.outcome = "ok",
                  !.unlinkFaults = cl.unlinkFaults,
                  !.marks = <<[id |-> args.generation_id, index |-> args.index,
                               storageKey |-> up.key, publicUrl |-> up.publicUrl]>>,
                  !.deleteAttempts = cl.deleteAttempts,
                  !.unlinkCalls = cl.unlinkCalls,
                  !.rmdirCalls = cl.rmdirCalls,
                  !.storage_key = Some(up.key),
                  !.deleted_previews = cl.deleted_previews,
                  !.retained_previews = cl.retained_previews]]

\* ------------------------------------------------------- Retention Sweeper
\* previews: previewsToDelete.slice(0, 20)
DryRunListed == 20

\* readdirSync(previewDir) with the statSync of each entry: the entries this
\* server run did not make, then the generation directories it made.  An
\* entry has a name (prefix and number), is a directory or not, has a
\* last-modified time and holds a number of files.
PreviewEntries(st) ==
  LET ds == SetToSortedSeq(st.dirs)
  IN st.area.entries \o
     [k \in 1..Len(ds) |->
        [own |-> TRUE, name |-> [prefix |-> "gen-", n |-> ds[k]],
         isDir |-> TRUE, mtime |-> st.mtimes[ds[k]],
         files |-> Cardinality({p \in DOMAIN st.files : p.dir = ds[k]})]]

\* The entry filter without its startsWith('gen-') test.
isCandidate_anyPrefix(entry, cutoffTime) ==
  entry.isDir /\ entry.mtime < cutoffTime

\* entry.startsWith('gen-') && stats.isDirectory() && stats.mtimeMs < cutoffTime
isCandidate(entry, cutoffTime) ==
  entry.name.prefix = "gen-" /\ entry.isDir /\ entry.mtime < cutoffTime

\* args.older_than_days ?? ctx.config.defaults.auto_cleanup_days
olderThanDays(cfg, args) ==
  IF args.older_than_days = Null THEN cfg.defaults.auto_cleanup_days
  ELSE args.older_than_days[1]

\* previewsToDelete, in the order of the directory listing
previewsToDelete(st, cfg, args, t) ==
  LET cutoffTime == t - olderThanDays(cfg, args)
  IN SelectSeq(PreviewEntries(st), LAMBDA e : isCandidate(e, cutoffTime))

\* A dry-run answer that lists every candidate.
dryRunReport_listsAll(candidates) ==
  [would_delete |-> Some(Len(candidates)),
   previews |-> [k \in 1..Len(candidates) |-> candidates[k].name],
   more |-> IF Len(candidates) > DryRunListed
            THEN Some(Len(candidates) - DryRunListed) ELSE Null]

\* The dry-run answer: would_delete, the first 20 previews, and the
\* `...and N more` message when there are more than 20.
dryRunReport(candidates) ==
  [would_delete |-> Some(Len(candidates)),
   previews |-> [k \in 1..(IF Len(candidates) > DryRunListed
                           THEN DryRunListed ELSE Len(candidates)) |->
                   candidates[k].name],
   more |-> IF Len(candidates) > DryRunListed
            THEN Some(Len(candidates) - DryRunListed) ELSE Null]

\* A delete loop whose try/catch encloses the whole loop: the first failing
\* candidate ends the sweep.
sweepDeleted_stopsAtFailure(candidates, failAt) ==
  {candidates[k].name :
     k \in {j \in 1..Len(candidates) : failAt \notin 1..j}}

\* The delete loop of cleanupPreviews: every candidate is removed but the one
\* whose deletion throws, which the catch inside the loop body records.
sweepDeleted(candidates, failAt) ==
  {candidates[k].name : k \in 1..Len(candidates) \ {failAt}}

\* cleanupPreviews(args, ctx).  readFails: readdirSync or statSync of the
\* preview area throws; failAt: the position in previewsToDelete of the
\* candidate whose deletion throws (0: none), after `removed` of its files
\* have been unlinked.  Returns the new state and the record of the call.
cleanupPreviews(st, cfg, args, readFails, failAt, removed, t) ==
  LET call0 == [NoCall EXCEPT !.op = "cleanup", !.at = t, !.args = args]
      dryRun == args.dry_run = "true"
      cutoffTime == t - olderThanDays(cfg, args)
  IN IF ~st.area.exists
     THEN [st |-> st, call |-> [call0 EXCEPT !.outcome = "NoPreviewDir"]]
     ELSE IF readFails
     THEN [st |-> st,
           call |-> [call0 EXCEPT !.outcome = "ReadError",
                                  !.error = "Failed to read preview directory",
                                  !.sweep.readFault = TRUE,
                                  !.sweep.cutoff = cutoffTime]]
     ELSE
     LET candidates == previewsToDelete(st, cfg, args, t)
         call1 == [call0 EXCEPT
                     !.sweep.cutoff = cutoffTime,
                     !.sweep.candidates =
                        [k \in 1..Len(candidates) |-> candidates[k].name]]
     IN IF candidates = <<>>
        THEN [st |-> st, call |-> [call1 EXCEPT !.outcome = "NothingToClean"]]
        ELSE IF dryRun
        THEN LET report == dryRunReport(candidates)
             IN [st |-> st,
                 call |-> [call1 EXCEPT !.outcome = "dry_run",
                                        !.sweep.would_delete = report.would_delete,
                                        !.sweep.previews = report.previews,
                                        !.sweep.more = report.more]]
        ELSE
        LET fails == failAt \in 1..Len(candidates)
            failed == IF fails THEN {candidates[failAt].name} ELSE {}
            deleted == sweepDeleted(candidates, failAt)
            \* the entry after the loop: gone, or left with the files that
            \* were not yet unlinked when the deletion threw
            After(e) ==
              IF e.name \in failed /\ removed > 0
              THEN [e EXCEPT !.files = @ - removed, !.mtime = t]
              ELSE e
            Stays(e) == e.name \notin deleted
            entries1 == SelectSeq(st.area.entries, Stays)
            entries2 == [k \in 1..Len(entries1) |-> After(entries1[k])]
            ownGone == {d \in st.dirs : [prefix |-> "gen-", n |-> d] \in deleted}
            ownFailed == {d \in st.dirs : [prefix |-> "gen-", n |-> d] \in failed}
            \* the files of the failing directory that were unlinked: the
            \* first `removed` in listing order
            Unlinked(d) ==
              LET names == SetToSortedSeq({p.name : p \in {q \in DOMAIN st.files :
                                                            q.dir = d}})
              IN {p \in DOMAIN st.files :
                    /\ p.dir = d
                    /\ \E k \in 1..removed : k <= Len(names) /\ names[k] = p.name}
            gone == {p \in DOMAIN st.files :
                       p.dir \in ownGone \/ (p.dir \in ownFailed /\ p \in Unlinked(p.dir))}
            dirs1 == st.dirs \ ownGone
            files1 == [p \in DOMAIN st.files \ gone |-> st.files[p]]
            mtimes1 == [d \in dirs1 |->
                          IF d \in ownFailed /\ removed > 0 THEN t
                          ELSE st.mtimes[d]]
        IN [st |-> [st EXCEPT !.area.entries = entries2, !.dirs = dirs1,
                              !.files = files1, !.mtimes = mtimes1],
            call |-> [call1 EXCEPT
                        !.outcome = "ok",
                        !.sweep.failedAt = IF fails THEN failAt ELSE 0,
                        !.sweep.deleted_count = Some(Cardinality(deleted)),
                        !.sweep.errors =
                           IF fails THEN <<candidates[failAt].name>> ELSE <<>>]]

\* ------------------------------------------------------------- configure
\* Math.min(4, Math.max(1, params.count))
clampCount(n) == IF n < 1 THEN 1 ELSE IF n > 4 THEN 4 ELSE n

\* configureTool(params): reads config.yaml, and when a setting is given
\* writes the file back with the setting changed and reports success;
\* otherwise shows the file.  `params.count` counts as given when truthy.
\* Returns the new content of the file and the record of the call.
configureTool(file, params, t) ==
  LET call0 == [NoCall EXCEPT !.op = "configure", !.at = t,
                              !.args = [NoArgs EXCEPT !.count = params.count]]
      hasUpdates == params.count # Null /\ params.count[1] # 0
  IN IF ~hasUpdates
     THEN [file |-> file, call |-> [call0 EXCEPT !.outcome = "shown"]]
     ELSE [file |-> [file EXCEPT !.defaults.count = clampCount(params.count[1])],
           call |-> [call0 EXCEPT !.outcome = "ok"]]

\* ------------------------------------------------------------ state machine
\* defaults.auto_cleanup_days of the user's config.yaml; a day is a clock tick
ConfiguredCleanupDays == 2

\* The user's config.yaml: provider, monthly budget (0, or a limit that one
\* generation of the provider can reach or stay below) and defaults.count.
Configs == {<<"gemini", 0, 2>>, <<"gemini", 50, 2>>,
            <<"fal", 0, 2>>, <<"fal", 5, 2>>}
\* cleanup_others: left out or false (an explicit true takes the branch of
\* the omitted argument: `args.cleanup_others !== false`)
CleanupOthers == {"omitted", "false"}
Filenames == {Null, Some("hero.png")}
Counts == {Null} \cup {Some(c) : c \in 1..MaxCount}

\* No preview area yet: nothing has been generated on this machine.
NoArea == [exists |-> FALSE, entries |-> <<>>]

\* The server right after start, with config.yaml `c` and preview area `a`.
InitServer(c, a) ==
  /\ config = [provider |-> [name |-> c[1]],
               budget |-> [monthly_limit |-> c[2],
                           alert_threshold |-> AlertThresholdPct],
               defaults |-> [count |-> c[3],
                             auto_cleanup_days |-> ConfiguredCleanupDays]]
  /\ area = a
  /\ ledger = <<>>
  /\ files = <<>>
  /\ dirs = {}
  /\ blob = <<>>
  /\ written = <<>>
  /\ now = 0
  /\ last = NoCall
  /\ configFile = config
  /\ mtimes = <<>>
  /\ disk = <<>>
  /\ acked = <<>>
  /\ pure = NoPure
  /\ running = <<>>

Init == \E c \in Configs : InitServer(c, NoArea)

\* A generate_images or select_image call: its effects, its record, one clock
\* tick.  createGeneration and markSelected end in save(), which rewrites the
\* database file with the rows in memory.
Apply(r) ==
  /\ ledger' = r.st.ledger
  /\ files' = r.st.files
  /\ dirs' = r.st.dirs
  /\ mtimes' = r.st.mtimes
  /\ blob' = r.st.blob
  /\ written' = r.st.written
  /\ area' = r.st.area
  /\ last' = r.call
  /\ now' = now + 1
  /\ disk' = IF r.st.ledger # ledger THEN r.st.ledger ELSE disk
  /\ UNCHANGED <<config, configFile, acked, pure, running>>

\* tool call generate_images
GenerateImages ==
  /\ now < MaxTime
  /\ Len(ledger) < MaxGens
  /\ \E count \in Counts :
       LET args == [NoArgs EXCEPT !.count = count]
           n == IF count = Null THEN config.defaults.count ELSE count[1]
       IN \E result \in ProviderResults(config.provider.name, n, now)
                          \cup {ProviderApiError} :
            \E writeFailAt \in 0..Len(result.images) :
              /\ writeFailAt # 0 =>
                   dataUrlToBuffer(result.images[writeFailAt].url) # Null
              /\ Apply(generateImages(State, config, args, result, writeFailAt, now))

\* The generation ids a caller may name: every id in the Ledger and one that
\* is not.
GenerationIds == 1..(Len(ledger) + 1)

\* The indexes a caller may name for a generation: one below the range, every
\* position, the image count, and every index the generation reported.
Indexes(id) ==
  IF id \in 1..Len(ledger)
  THEN ((-1)..Len(ledger[id].images))
         \cup {ledger[id].images[k].index_num : k \in 1..Len(ledger[id].images)}
  ELSE {0}

\* tool call select_image.  Arguments and faults that a call never gets to
\* use are taken at their defaults: they are no different input.
SelectImage ==
  /\ now < MaxTime
  /\ \E id \in GenerationIds :
     \E index \in Indexes(id), co \in CleanupOthers,
        filename \in Filenames, uploadFails \in BOOLEAN :
       LET args == [NoArgs EXCEPT !.generation_id = id, !.index = index,
                                  !.cleanup_others = co, !.filename = filename]
           paths == IF id \in 1..Len(ledger)
                    THEN {ledger[id].images[k].preview_url :
                            k \in 1..Len(ledger[id].images)}
                    ELSE {}
       IN \E unlinkFails \in {{}} \cup {{p} : p \in paths} :
            LET r == selectImage(State, args, uploadFails, unlinkFails, now)
            IN /\ uploadFails => r.call.uploadFault
               /\ unlinkFails = r.call.unlinkFaults
               /\ r.call.uploads = <<>> => filename = Null
               /\ r.call.outcome # "ok" => co = "omitted"
               /\ Apply(r)

\* time passes between tool calls
Tick ==
  /\ now < MaxTime
  /\ now' \in (now + 1)..MaxTime
  /\ UNCHANGED <<config, ledger, files, dirs, blob, written, last,
                 configFile, mtimes, area, disk, acked, pure, running>>

Next == GenerateImages \/ SelectImage \/ Tick

Spec == Init /\ [][Next]_vars

\* ------------------------------------- the server with a used preview area
\* An entry that was in the preview area before the server started.
Entry(prefix, n, isDir, mtime, nfiles) ==
  [own |-> FALSE, name |-> [prefix |-> prefix, n |-> n], isDir |-> isDir,
   mtime |-> mtime, files |-> nfiles]

\* The preview areas the server may find: none; one with an old generation
\* directory, a fresh one, an old directory of another name and an old plain
\* file named like a generation; one with 20 and one with 21 old generation
\* directories.
Areas ==
  {NoArea,
   [exists |-> TRUE,
    entries |-> <<Entry("gen-", -4, TRUE, -3, 2), Entry("gen-", -3, TRUE, 0, 1),
                  Entry("tmp-", -2, TRUE, -3, 1), Entry("gen-", -1, FALSE, -3, 0)>>],
   [exists |-> TRUE,
    entries |-> [k \in 1..DryRunListed |-> Entry("gen-", k - 30, TRUE, -3, 0)]],
   [exists |-> TRUE,
    entries |-> [k \in 1..(DryRunListed + 1) |-> Entry("gen-", k - 30, TRUE, -3, 0)]]}

\* older_than_days: left out, 0 (everything made before this instant) or 1
OlderThanDays == {Null, Some(0), Some(1)}
\* dry_run: left out or true (an explicit false is the omitted argument)
DryRuns == {"omitted", "true"}

InitSweeper == \E a \in Areas : InitServer(<<"gemini", 0, 2>>, a)

\* tool call cleanup_previews.  Faults that a call never meets are taken as
\* absent; the deletion that fails is that of the first or the last candidate.
CleanupPreviews ==
  /\ now < MaxTime
  /\ \E days \in OlderThanDays, dry \in DryRuns, readFails \in BOOLEAN :
       LET args == [NoArgs EXCEPT !.older_than_days = days, !.dry_run = dry]
           candidates == previewsToDelete(State, config, args, now)
       IN \E failAt \in {0} \cup ({1, Len(candidates)} \cap 1..Len(candidates)) :
          \E removed \in 0..(IF failAt = 0 THEN 0 ELSE candidates[failAt].files) :
            LET r == cleanupPreviews(State, config, args, readFails, failAt,
                                     removed, now)
            IN /\ readFails = r.call.sweep.readFault
               /\ failAt = r.call.sweep.failedAt
               /\ Apply(r)

NextSweeper == GenerateImages \/ CleanupPreviews \/ Tick

SpecSweeper == InitSweeper /\ [][NextSweeper]_vars

\* -------------------------------- generate, sweep and select on one server
InitRetention == InitServer(<<"gemini", 0, 2>>, NoArea)

NextRetention == GenerateImages \/ CleanupPreviews \/ SelectImage \/ Tick

SpecRetention == InitRetention /\ [][NextRetention]_vars

\* ---------------------------------- select_image invocations that overlap
\* The request handler is an async function that the protocol layer calls for
\* each request as it arrives; selectImage runs up to an await, and whatever
\* else is ready runs before it resumes.  The upload is taken to succeed and
\* every unlink too.

\* selectImage up to `await ctx.storage.upload(...)`: Null when the call
\* throws before it, else the invocation suspended there, holding the
\* generation as read and the upload options.
selectBegin(st, args, t) ==
  LET found == getGeneration(st.ledger, args.generation_id)
  IN IF found = Null THEN Null
     ELSE IF indexRejected(found[1], args.index) THEN Null
     ELSE IF args.index < 0 THEN Null
     ELSE LET selectedImage == found[1].images[args.index + 1]
              read == readLocalImage(st.files, selectedImage.preview_url)
          IN IF read.threw THEN Null
             ELSE Some([pc |-> "uploading", args |-> args, at |-> t,
                        generation |-> found[1],
                        options |-> uploadOptions(args, selectedImage,
                                                  read.buffer, t),
                        key |-> Null])

InitConcurrent == InitServer(<<"gemini", 0, 2>>, NoArea)

\* A select_image request arrives and runs to its first await that waits for
\* the outside: the upload.  A call that throws before it is over at once.
SelectBegin ==
  /\ now < MaxTime
  /\ Len(running) < MaxInFlight
  /\ \E id \in GenerationIds :
     \E index \in Indexes(id), co \in CleanupOthers :
       LET args == [NoArgs EXCEPT !.generation_id = id, !.index = index,
                                  !.cleanup_others = co]
           begun == selectBegin(State, args, now)
       IN IF begun = Null
          THEN /\ co = "omitted"
               /\ Apply(selectImage(State, args, FALSE, {}, now))
          ELSE /\ running' = Append(running, begun[1])
               /\ now' = now + 1
               /\ UNCHANGED <<config, ledger, files, dirs, blob, written, last,
                              configFile, mtimes, area, disk, acked, pure>>

\* The upload of a suspended invocation completes: the object is in the store.
SelectUploaded ==
  \E i \in 1..Len(running) :
    /\ running[i].pc = "uploading"
    /\ LET up == storageUpload(blob, running[i].options, FALSE, running[i].at)
       IN /\ blob' = up.store
          /\ running' = [running EXCEPT ![i].pc = "uploaded",
                                        ![i].key = Some(up.key)]
    /\ UNCHANGED <<config, ledger, files, dirs, written, now, last,
                   configFile, mtimes, area, disk, acked, pure>>

\* The invocation resumes after the upload: markSelected's UPDATE and save().
SelectMarked ==
  \E i \in 1..Len(running) :
    /\ running[i].pc = "uploaded"
    /\ ledger' = markSelected(ledger, running[i].args.generation_id,
                              running[i].args.index, running[i].key[1],
                              <<"public", running[i].key[1]>>, now)
    /\ disk' = ledger'
    /\ running' = [running EXCEPT ![i].pc = "marked"]
    /\ UNCHANGED <<config, files, dirs, blob, written, now, last,
                   configFile, mtimes, area, acked, pure>>

\* The invocation resumes after markSelected: the cleanup loop over the images
\* read at the start, then the response.
SelectCleaned ==
  \E i \in 1..Len(running) :
    /\ running[i].pc = "marked"
    /\ LET inv == running[i]
           cl == cleanupLocalPreviews(State, inv.generation, inv.args, {}, now)
       IN /\ files' = cl.files
          /\ dirs' = cl.dirs
          /\ mtimes' = cl.mtimes
          /\ last' = [NoCall EXCEPT
                        !.op = "select", !.at = inv.at, !.args = inv.args,
                        !.outcome = "ok",
                        !.uploads = <<[buffer |-> inv.options.buffer,
                                       key |-> inv.key[1]]>>,
                        !.marks = <<[id |-> inv.args.generation_id,
                                     index |-> inv.args.index,
                                     storageKey |-> inv.key[1],
                                     publicUrl |-> <<"public", inv.key[1]>>]>>,
                        !.deleteAttempts = cl.deleteAttempts,
                        !.unlinkCalls = cl.unlinkCalls,
                        !.rmdirCalls = cl.rmdirCalls,
                        !.storage_key = inv.key,
                        !.deleted_previews = cl.deleted_previews,
                        !.retained_previews = cl.retained_previews]
    /\ running' = [running EXCEPT ![i].pc = "done"]
    /\ UNCHANGED <<config, ledger, blob, written, now, configFile, area,
                   disk, acked, pure>>

NextConcurrent ==
  \/ GenerateImages
  \/ SelectBegin
  \/ SelectUploaded
  \/ SelectMarked
  \/ SelectCleaned
  \/ Tick

SpecConcurrent == InitConcurrent /\ [][NextConcurrent]_vars

\* ------------------------------------------- the GenerationStore on its own
SaveOutcomes == {"done", "refused", "cut"}

\* The rows a caller hands to createGeneration: provider, model, cost, and
\* as many images as `count` says.
GenerationData(t) ==
  {[provider |-> pm[1], model |-> pm[2], count |-> 2,
    cost |-> IF pm[1] = "gemini" THEN GeminiCostPerImage ELSE FalCostPerImage,
    images |-> [k \in 1..2 |->
                  [index_num |-> k - 1,
                   preview_url |-> PreviewPath(t, k - 1, "image/png")]]] :
     pm \in {<<"gemini", ProviderModel("gemini")>>,
             <<"fal", ProviderModel("fal")>>, <<"fal", "fal-ai/flux/dev">>}}

InitLedger == InitServer(<<"gemini", 0, 2>>, NoArea)

\* The record of a call on the store.
StoreCall(op, threw, t) ==
  [NoCall EXCEPT !.op = op, !.at = t,
                 !.outcome = IF threw THEN "PersistenceError" ELSE "ok"]

\* A call on the store: the rows in memory are changed, then saved.  When
\* save throws, the call fails with the rows in memory already changed.
StoreApply(op, db1, write) ==
  LET sv == save(db1, disk, write)
  IN /\ ledger' = db1
     /\ disk' = sv.file
     /\ acked' = IF sv.threw THEN acked ELSE db1
     /\ last' = StoreCall(op, sv.threw, now)
     /\ now' = now + 1
     /\ UNCHANGED <<config, files, dirs, blob, written, configFile, mtimes,
                    area, pure, running>>

\* createGeneration whose INSERT of image row `failAt` throws (db.run raises
\* on a constraint or an engine error): no transaction is open, so the
\* generations row and the image rows inserted before it stay in the
\* in-memory database; save() is not reached.
createGenerationInterrupted(db, data, failAt, t) ==
  createGeneration(db, [data EXCEPT !.images = SubSeq(@, 1, failAt - 1)], t)

CreateGeneration ==
  /\ now < MaxTime
  /\ Len(ledger) < MaxGens
  /\ \E data \in GenerationData(now) :
       \/ \E write \in SaveOutcomes :
            StoreApply("createGeneration", createGeneration(ledger, data, now),
                       write)
       \/ \E failAt \in 1..Len(data.images) :
            /\ ledger' = createGenerationInterrupted(ledger, data, failAt, now)
            /\ last' = [StoreCall("createGeneration", TRUE, now) EXCEPT
                          !.error = "INSERT INTO images"]
            /\ now' = now + 1
            /\ UNCHANGED <<config, files, dirs, blob, written, configFile,
                           mtimes, area, disk, acked, pure, running>>

\* markSelected on any id (an id without a row updates nothing, and saves).
MarkSelected ==
  /\ now < MaxTime
  /\ \E id \in 1..(Len(ledger) + 1), index \in 0..1, write \in SaveOutcomes :
       LET key == generateStoragePath(
                    [name |-> "hero.png", stamp |-> -1, ext |-> ""], now)
       IN StoreApply("markSelected",
                     markSelected(ledger, id, index, key, <<"public", key>>, now),
                     write)

\* The process ends (at any point between two calls) and a new one starts:
\* the store is rebuilt from the file.
Restart ==
  /\ now < MaxTime
  /\ ledger' = init(disk).db
  /\ disk' = init(disk).file
  /\ last' = [NoCall EXCEPT !.op = "restart", !.at = now, !.outcome = "ok"]
  /\ now' = now + 1
  /\ UNCHANGED <<config, files, dirs, blob, written, configFile, mtimes,
                 area, acked, pure, running>>

NextLedger == CreateGeneration \/ MarkSelected \/ Restart \/ Tick

SpecLedger == InitLedger /\ [][NextLedger]_vars

\* ------------------------------------------------- the pure functions
\* Every variable but `pure`.
serverVars == <<config, ledger, files, dirs, blob, written, now, last,
                configFile, mtimes, area, disk, acked, running>>

\* The server at rest, with a pure function about to be applied to `input`.
InitPure(input) ==
  \E p \in input :
    \E c \in {<<"gemini", 0, 2>>} :
      /\ pure = p
      /\ config = [provider |-> [name |-> c[1]],
                   budget |-> [monthly_limit |-> c[2],
                               alert_threshold |-> AlertThresholdPct],
                   defaults |-> [count |-> c[3],
                                 auto_cleanup_days |-> ConfiguredCleanupDays]]
      /\ configFile = config
      /\ area = NoArea /\ ledger = <<>> /\ files = <<>> /\ dirs = {}
      /\ blob = <<>> /\ written = <<>> /\ now = 0 /\ last = NoCall
      /\ mtimes = <<>> /\ disk = <<>> /\ acked = <<>> /\ running = <<>>

\* Texts of up to n code units over: tab, space, a letter, a no-break space,
\* an em dash, an ellipsis, a curly quote, an accented letter.
CodeUnits == {Tab, Space, 97, 160, 8212, 8230, 8217, 233}
Texts(n) == UNION {[1..k -> CodeUnits] : k \in 0..n}

InitSanitize ==
  InitPure({[fn |-> "sanitize", text |-> s, maxLength |-> n,
             once |-> Null, twice |-> Null] :
              s \in Texts(MaxLen), n \in 0..MaxLen})

\* sanitizeForHeader applied to the text
Sanitize ==
  /\ pure.fn = "sanitize" /\ pure.once = Null
  /\ pure' = [pure EXCEPT
                !.once = Some(sanitizeForHeader(pure.text, pure.maxLength))]
  /\ UNCHANGED serverVars

\* sanitizeForHeader applied to its own output
SanitizeAgain ==
  /\ pure.fn = "sanitize" /\ pure.once # Null /\ pure.twice = Null
  /\ pure' = [pure EXCEPT
                !.twice = Some(sanitizeForHeader(pure.once[1], pure.maxLength))]
  /\ UNCHANGED serverVars

NextSanitize == Sanitize \/ SanitizeAgain

SpecSanitize == InitSanitize /\ [][NextSanitize]_vars

\* Templates of up to n pieces over the four tokens, a token the templater
\* does not know, and a separator; filenames; dates with one and two digits.
Pieces == Tokens \cup {"{hour}", "/"}
Templates(n) == UNION {[1..k -> Pieces] : k \in 0..n}
TemplateFilenames == {<<"x.png">>, <<"a", "$&", ".png">>, <<"$$.png">>}
Dates == {[year |-> 2025, month |-> 1, day |-> 9],
          [year |-> 2025, month |-> 12, day |-> 31]}

InitExpand ==
  InitPure({[fn |-> "expand", template |-> tpl, filename |-> f, date |-> d,
             path |-> Null] :
              tpl \in Templates(MaxTemplate), f \in TemplateFilenames,
              d \in Dates})

\* generateStoragePath applied to the template
Expand ==
  /\ pure.fn = "expand" /\ pure.path = Null
  /\ pure' = [pure EXCEPT
                !.path = Some(expandTemplate(pure.template, pure.filename,
                                             pure.date))]
  /\ UNCHANGED serverVars

NextExpand == Expand

SpecExpand == InitExpand /\ [][NextExpand]_vars

\* ----------------------------------------- the server with its configure tool
\* The counts a caller gives to configure: none, 0, one in range, one above.
ConfigureCounts == {Null, Some(0), Some(1), Some(5)}

\* tool call configure: works on config.yaml only; the Config object that the
\* server built at start (server.ts:32) is not touched.
Configure ==
  /\ now < MaxTime
  /\ \E count \in ConfigureCounts :
       LET r == configureTool(configFile, [count |-> count], now)
       IN /\ configFile' = r.file
          /\ last' = r.call
          /\ now' = now + 1
  /\ UNCHANGED <<config, ledger, files, dirs, blob, written,
                 mtimes, area, disk, acked, pure, running>>

NextConfigure == Configure \/ GenerateImages \/ Tick

SpecConfigure == Init /\ [][NextConfigure]_vars

\* ======================================================== properties
\* A step that is a tool call (Tick leaves `last` alone, and two calls never
\* share their instant).
Called == last' # last

SelectCalled == Called /\ last'.op = "select"
GenerateCalled == Called /\ last'.op = "generate"

\* The generation a select_image call names, as select_image reads it.
Known(id) == id \in 1..Len(ledger)
ImagesOf(id) == OrderByIndexNum(ledger[id].images)
PathsOf(id) == {ledger[id].images[k].preview_url : k \in 1..Len(ledger[id].images)}
ReportedIndexes(id) == {ledger[id].images[k].index_num : k \in 1..Len(ledger[id].images)}
PreviewOf(id, i) ==
  (CHOOSE img \in Range(ledger[id].images) : img.index_num = i).preview_url
PreviewsIntact(id) ==
  \A p \in PathsOf(id) : p \in DOMAIN files /\ files[p] = written[p]

NoSelectEffects ==
  /\ last'.uploads = <<>> /\ last'.marks = <<>>
  /\ last'.deleteAttempts = <<>> /\ last'.rmdirCalls = <<>>
  /\ ledger' = ledger /\ blob' = blob /\ files' = files /\ dirs' = dirs

\* C1: after a successful generate_images, select_image(generation_id, i) for
\* a reported index i with the previews intact (and a Blob Store that accepts
\* the upload) makes exactly one upload, of the bytes written to the preview
\* of the image reported with index i, and calls markSelected with index i and
\* the key and URL of that upload.
C1_SelectUploadsReportedImage ==
  [][(/\ SelectCalled
      /\ Known(last'.args.generation_id)
      /\ last'.args.index \in ReportedIndexes(last'.args.generation_id)
      /\ PreviewsIntact(last'.args.generation_id)
      /\ ~last'.uploadFault)
     => (/\ last'.outcome = "ok"
         /\ Len(last'.uploads) = 1
         /\ last'.uploads[1].buffer =
              written[PreviewOf(last'.args.generation_id, last'.args.index)]
         /\ last'.marks = <<[id |-> last'.args.generation_id,
                             index |-> last'.args.index,
                             storageKey |-> last'.uploads[1].key,
                             publicUrl |-> <<"public", last'.uploads[1].key>>]>>)]_vars

\* C2: select_image on a known generation fails with InvalidIndex whenever the
\* index is not in 0 <= index < number of images (negative, equal to the count,
\* no images at all), and then uploads, updates and deletes nothing.
C2_OutOfRangeIsInvalidIndex ==
  [][(/\ SelectCalled
      /\ Known(last'.args.generation_id)
      /\ ~(/\ 0 <= last'.args.index
           /\ last'.args.index < Len(ledger[last'.args.generation_id].images)))
     => (last'.outcome = "InvalidIndex" /\ NoSelectEffects)]_vars

\* C3: when the Blob Store rejects the upload, select_image has made exactly
\* one upload attempt, fails with the store's error, calls markSelected not at
\* all, deletes nothing, and leaves Ledger, Blob Store and preview area as
\* they were.
C3_UploadFailureLeavesAllUnchanged ==
  [][(SelectCalled /\ last'.uploadFault)
     => (/\ Len(last'.uploads) = 1
         /\ last'.outcome = "UploadError"
         /\ last'.error = "UpstreamStorageError"
         /\ last'.marks = <<>>
         /\ last'.deleteAttempts = <<>> /\ last'.rmdirCalls = <<>>
         /\ ledger' = ledger /\ blob' = blob
         /\ files' = files /\ dirs' = dirs)]_vars

C3_Witness ==
  /\ last.op = "select" /\ last.uploadFault /\ last.outcome = "UploadError"
  /\ Len(last.uploads) = 1
  /\ ledger[last.args.generation_id].selected_index = Null

\* The previews a select_image call with cleanup_others=true has to go through:
\* the local ones of the generation, in index order.
LocalPreviews(id) ==
  LET IsLocal(img) == isLocalPath(img.preview_url)
      locals == SelectSeq(ImagesOf(id), IsLocal)
  IN [k \in 1..Len(locals) |-> locals[k].preview_url]

CleanupAllCalled ==
  SelectCalled /\ last'.outcome = "ok" /\ last'.args.cleanup_others # "false"

\* C4 (as claimed): after a successful select_image with cleanup_others=true a
\* delete is attempted for each local preview of the generation, and the
\* reported deleted count equals the number of those files that existed.
C4_DeletedCountIsExistingCount ==
  [][CleanupAllCalled
     => (/\ last'.deleteAttempts = LocalPreviews(last'.args.generation_id)
         /\ last'.deleted_previews =
              Cardinality(Range(LocalPreviews(last'.args.generation_id))
                            \cap DOMAIN files))]_vars

\* C4 (amended): after a successful select_image with cleanup_others=true a
\* delete is attempted for each local preview of the generation and for
\* nothing else, and the reported deleted count equals the number of those
\* files that existed and were removed (a file whose unlink fails is not
\* counted, and stays).
C4_DeletedCountIsRemovedCount ==
  [][CleanupAllCalled
     => (/\ last'.deleteAttempts = LocalPreviews(last'.args.generation_id)
         /\ \A k \in 1..Len(last'.deleteAttempts) :
              isLocalPath(last'.deleteAttempts[k])
         /\ last'.unlinkCalls =
              SelectSeq(last'.deleteAttempts, LAMBDA p : p \in DOMAIN files)
         /\ last'.deleted_previews =
              Cardinality((Range(LocalPreviews(last'.args.generation_id))
                             \cap DOMAIN files) \ last'.unlinkFaults)
         /\ DOMAIN files \ DOMAIN files' =
              (Range(LocalPreviews(last'.args.generation_id))
                 \cap DOMAIN files) \ last'.unlinkFaults)]_vars

C4_Witness ==
  /\ last.op = "select" /\ last.outcome = "ok"
  /\ last.args.cleanup_others = "omitted"
  /\ Len(last.deleteAttempts) = 2
  /\ Len(last.unlinkCalls) = 2
  /\ last.deleted_previews = 1
  /\ last.unlinkFaults # {}

\* C5: after a successful select_image with cleanup_others=false (and no
\* failing unlink), exactly one preview has been deleted, the one whose bytes
\* were uploaded; every other local preview of the generation that existed
\* still exists and is listed in retained_previews; no rmdir is attempted.
C5_KeepOthersDeletesOnlySelected ==
  [][(/\ SelectCalled /\ last'.outcome = "ok"
      /\ last'.args.cleanup_others = "false"
      /\ last'.unlinkFaults = {})
     => (LET id == last'.args.generation_id
             selected == ImagesOf(id)[last'.args.index + 1].preview_url
         IN /\ files[selected] = last'.uploads[1].buffer
            /\ DOMAIN files \ DOMAIN files' = {selected}
            /\ \A p \in Range(LocalPreviews(id)) \ {selected} :
                 /\ p \in DOMAIN files => p \in DOMAIN files'
                 /\ p \in Range(last'.retained_previews)
            /\ last'.rmdirCalls = <<>>)]_vars

\* C6: when the preview file of the image that select_image resolves for the
\* index does not exist, the call fails with PreviewMissing before any upload,
\* and Ledger, Blob Store and preview area are unchanged.
C6_MissingPreviewFailsBeforeUpload ==
  [][(/\ SelectCalled
      /\ Known(last'.args.generation_id)
      /\ last'.args.index \in 0..(Len(ledger[last'.args.generation_id].images) - 1)
      /\ ImagesOf(last'.args.generation_id)[last'.args.index + 1].preview_url
           \notin DOMAIN files)
     => (/\ last'.outcome = "PreviewMissing"
         /\ last'.error = "Preview file not found"
         /\ NoSelectEffects)]_vars

C6_Witness ==
  /\ last.op = "select" /\ last.outcome = "PreviewMissing"
  /\ Known(last.args.generation_id)
  /\ ledger[last.args.generation_id].selected_index # Null
  /\ Cardinality(DOMAIN blob) = 1

\* C7: select_image on a generation id that the Ledger does not hold fails
\* with NotFound and uploads, updates and deletes nothing.
C7_UnknownGenerationIsNotFound ==
  [][(SelectCalled /\ ~Known(last'.args.generation_id))
     => (/\ last'.outcome = "NotFound"
         /\ last'.error = "Generation not found"
         /\ NoSelectEffects)]_vars

C7_Witness ==
  /\ last.op = "select" /\ last.outcome = "NotFound"
  /\ Len(ledger) = 1 /\ last.args.generation_id = 2

RECURSIVE MonthToDate(_, _)
MonthToDate(db, t) ==
  IF db = <<>> THEN 0
  ELSE (IF Month(Head(db).created_at) = Month(t) THEN Head(db).cost ELSE 0)
         + MonthToDate(Tail(db), t)

\* C9: a successful generate_images returns a budget warning if and only if
\* the month-to-date total of the Ledger that holds the new generation is at
\* least monthly_limit x alert_threshold.
C9_WarningIffMonthToDateAtThreshold ==
  (last.op = "generate" /\ last.outcome = "ok")
    => /\ Known(last.generation_id[1])
       /\ ledger[last.generation_id[1]].created_at = last.at
       /\ (last.budget_warning # Null
             <=> MonthToDate(ledger, last.at) * 100
                   >= config.budget.monthly_limit * config.budget.alert_threshold)

C9_Witness ==
  /\ last.op = "generate" /\ last.outcome = "ok"
  /\ config.budget.monthly_limit > 0
  /\ Len(ledger) = 2
  /\ Month(ledger[1].created_at) # Month(ledger[2].created_at)
  /\ last.budget_warning = Null
  /\ (ledger[1].cost + ledger[2].cost) * 100
       >= config.budget.monthly_limit * config.budget.alert_threshold

\* C10: with monthly_limit = 0 (unlimited) generate_images never returns a
\* budget warning.
C10_ZeroLimitNeverWarns ==
  (last.op = "generate" /\ last.outcome = "ok" /\ config.budget.monthly_limit = 0)
    => last.budget_warning = Null

\* C11: when the month-to-date spend has reached the monthly limit, a
\* generate_images call is blocked: no provider call, no new generation, no
\* added cost.
C11_AtLimitGenerationBlocked ==
  [][(/\ GenerateCalled
      /\ config.budget.monthly_limit > 0
      /\ MonthToDate(ledger, last'.at) >= config.budget.monthly_limit)
     => (/\ last'.providerCalls = 0
         /\ ledger' = ledger
         /\ MonthToDate(ledger', last'.at) = MonthToDate(ledger, last'.at))]_vars

\* C12: after configure has updated the default count and reported success,
\* the next generate_images call of the same server that leaves count out
\* requests the updated number of images.
C12_NextGenerateUsesConfiguredCount ==
  [][(/\ GenerateCalled
      /\ last.op = "configure" /\ last.outcome = "ok"
      /\ last'.args.count = Null /\ last'.outcome = "ok")
     => ledger'[last'.generation_id[1]].count = configFile.defaults.count]_vars

\* The sum of the cost column over all rows, and of the values of a map.
RECURSIVE TotalCost(_)
TotalCost(db) == IF db = <<>> THEN 0 ELSE Head(db).cost + TotalCost(Tail(db))

RECURSIVE MapSum(_)
MapSum(f) ==
  IF DOMAIN f = {} THEN 0
  ELSE LET k == CHOOSE k \in DOMAIN f : TRUE
       IN f[k] + MapSum([j \in DOMAIN f \ {k} |-> f[j]])

C14_AckedMutationsStayOnDisk ==
  LET reloaded == init(disk).db
  IN \A k \in 1..Len(acked) : k <= Len(reloaded) /\ reloaded[k] = acked[k]

SweepCalled == Called /\ last'.op = "cleanup"

\* The threshold of a cleanup_previews call, and the entries that are
\* generation directories older than the call's instant minus the threshold.
ThresholdOf(call) ==
  IF call.args.older_than_days = Null THEN config.defaults.auto_cleanup_days
  ELSE call.args.older_than_days[1]
OldGenerationDir(e, call) ==
  e.name.prefix = "gen-" /\ e.isDir /\ e.mtime < call.at - ThresholdOf(call)

\* C15: a non-dry-run cleanup_previews leaves unchanged every entry of the
\* preview area that is not a directory named gen-* with a last-modified time
\* older than now minus the threshold: newer directories (with their files),
\* entries of another name and plain files all stay as they were.
C15_SweepTouchesOnlyOldGenerationDirs ==
  [][(SweepCalled /\ last'.args.dry_run # "true")
     => (/\ \A k \in 1..Len(area.entries) :
              ~OldGenerationDir(area.entries[k], last')
                => \E j \in 1..Len(area'.entries) :
                      area'.entries[j] = area.entries[k]
         /\ \A d \in dirs :
              ~(mtimes[d] < last'.at - ThresholdOf(last'))
                => /\ d \in dirs' /\ mtimes'[d] = mtimes[d]
                   /\ \A p \in DOMAIN files :
                        p.dir = d => p \in DOMAIN files' /\ files'[p] = files[p]
         /\ area'.exists = area.exists)]_vars

C15_Witness ==
  /\ last.op = "cleanup" /\ last.outcome = "ok"
  /\ last.sweep.deleted_count = Some(1)
  /\ last.sweep.candidates = <<[prefix |-> "gen-", n |-> -4]>>
  /\ dirs # {} /\ DOMAIN files # {}
  /\ Len(area.entries) = 3

C17_SanitizedIsPrintableAsciiWithinLength ==
  (pure.fn = "sanitize" /\ pure.once # Null)
    => /\ \A k \in 1..Len(pure.once[1]) : pure.once[1][k] \in 32..126
       /\ Len(pure.once[1]) <= pure.maxLength

C17_Witness ==
  /\ pure.fn = "sanitize"
  /\ pure.text = <<8212, 233, 97>> /\ pure.maxLength = 2
  /\ pure.once = Some(<<45, 45>>)

\* C18: the sanitizer is idempotent: sanitize(sanitize(s, n), n) equals
\* sanitize(s, n) for every text s and every maxLength n.
C18_SanitizeIsIdempotent ==
  (pure.fn = "sanitize" /\ pure.twice # Null) => pure.twice = pure.once

\* The path that replaces every token of the template: the year, the month
\* and the day in two digits, the filename as given; every other piece as
\* it is.
ExpandedEverywhere(template, filename, date) ==
  FlatMap(template,
          LAMBDA piece : CASE piece = "{year}" -> <<ToString(date.year)>>
                           [] piece = "{month}" -> padStart2(date.month)
                           [] piece = "{day}" -> padStart2(date.day)
                           [] piece = "{filename}" -> filename
                           [] OTHER -> <<piece>>)

\* C19: expand(template, filename) replaces each occurrence of {year},
\* {month}, {day} and {filename} by the 4-digit year, the 2-digit month and
\* day and the filename as given, and leaves the rest of the template alone,
\* also when a token occurs more than once.
C19_ExpandReplacesEveryToken ==
  (pure.fn = "expand" /\ pure.path # Null)
    => pure.path[1] = ExpandedEverywhere(pure.template, pure.filename, pure.date)

\* C20: in every reachable Ledger, each generation whose selected_index is
\* set has exactly one image row whose index_num equals it.
C20_SelectedIndexIsIndexOfOneImage ==
  \A g \in 1..Len(ledger) :
    ledger[g].selected_index # Null
      => Cardinality({k \in 1..Len(ledger[g].images) :
                        ledger[g].images[k].index_num
                          = ledger[g].selected_index[1]}) = 1

\* The four selection fields of a generation row.
SelectionOf(row) ==
  <<row.selected_index, row.selected_at, row.storage_key, row.public_url>>

\* C21: once the selection fields of a generation (selected_index,
\* selected_at, storage_key, public_url) are set, no later tool call changes
\* them, further select_image calls with either cleanup_others included.
C21_SelectionSetAtMostOnce ==
  [][\A g \in 1..Len(ledger) :
       ledger[g].selected_index # Null
         => /\ g <= Len(ledger')
            /\ SelectionOf(ledger'[g]) = SelectionOf(ledger[g])]_vars

\* A select_image call on a generation that is already selected, naming
\* another position of that generation, with a Blob Store that accepts uploads.
SecondSelect ==
  /\ SelectCalled
  /\ Known(last'.args.generation_id)
  /\ ledger[last'.args.generation_id].selected_index # Null
  /\ last'.args.index \in 0..(Len(ledger[last'.args.generation_id].images) - 1)
  /\ last'.args.index # ledger[last'.args.generation_id].selected_index[1]
  /\ ~last'.uploadFault

\* The second selection went through: the call succeeded and the row carries
\* the index given and the key and URL of this call's upload.
SelectionOverwritten ==
  LET id == last'.args.generation_id
  IN /\ last'.outcome = "ok"
     /\ Len(last'.uploads) = 1
     /\ ledger'[id].selected_index = Some(last'.args.index)
     /\ ledger'[id].storage_key = Some(last'.uploads[1].key)
     /\ ledger'[id].public_url = Some(<<"public", last'.uploads[1].key>>)

ProvidedExcept(skip) ==
  SelectSeq([k \in 1..Len(last'.provided) |->
               [index |-> last'.provided[k].index, pos |-> k]],
            LAMBDA e : e.pos # skip)

\* C23: when the write of one image's preview file fails during
\* generate_images, the call still succeeds: the generation is inserted in
\* the Ledger with the other images, whose previews are written, and the
\* response lists those images only.
C23_WriteFailureSkipsTheImage ==
  [][(GenerateCalled /\ last'.writeFault # 0)
       => LET others == ProvidedExcept(last'.writeFault)
          IN /\ last'.outcome = "ok"
             /\ Len(ledger') = Len(ledger) + 1
             /\ Len(ledger'[Len(ledger')].images) = Len(others)
             /\ \A k \in 1..Len(others) :
                  /\ ledger'[Len(ledger')].images[k].index_num = others[k].index
                  /\ ledger'[Len(ledger')].images[k].preview_url \in DOMAIN files'
                  /\ last'.images[k].index = others[k].index
             /\ Len(last'.images) = Len(others)]_vars

\* C24: every image the provider returned has a Ledger image row and an entry
\* in the response of a successful generate_images; for an image returned as
\* a bare remote URL the row's preview reference is that URL.
C24_EveryProvidedImageHasALedgerRow ==
  [][(GenerateCalled /\ last'.outcome = "ok")
       => \A k \in 1..Len(last'.provided) :
            LET img == last'.provided[k]
                rows == ledger'[Len(ledger')].images
            IN /\ \E j \in 1..Len(rows) :
                    /\ rows[j].index_num = img.index
                    /\ (img.remote # Null => rows[j].preview_url = img.remote[1])
               /\ \E j \in 1..Len(last'.images) :
                    last'.images[j].index = img.index]_vars

\* C27: every object in the Blob Store is the storage_key of some generation
\* in the Ledger, after any sequence of generate_images and select_image
\* calls, failing ones included.
C27_EveryBlobIsAStorageKey ==
  \A key \in DOMAIN blob :
    \E g \in 1..Len(ledger) : ledger[g].storage_key = Some(key)

\* C28: no tool call deletes a generation or an image row or changes a
\* generation's cost or any column other than the four selection fields;
\* a select_image call changes the selection fields of the generation it
\* names only, and no other call changes any.
C28_LedgerIsAppendOnly ==
  [][/\ Len(ledger') >= Len(ledger)
     /\ \A g \in 1..Len(ledger) :
          /\ ledger'[g] = [ledger[g] EXCEPT
                             !.selected_index = ledger'[g].selected_index,
                             !.selected_at = ledger'[g].selected_at,
                             !.storage_key = ledger'[g].storage_key,
                             !.public_url = ledger'[g].public_url]
          /\ (SelectionOf(ledger'[g]) # SelectionOf(ledger[g])
                => (SelectCalled /\ last'.args.generation_id = ledger[g].id))]_vars

\* A selection made while the Ledger holds another generation with a cost.
C28_Witness ==
  /\ last.op = "select" /\ last.outcome = "ok"
  /\ Len(ledger) = 2
  /\ \E g \in 1..2 : /\ ledger[g].selected_index # Null
                     /\ ledger[g].cost > 0
                     /\ ledger[3 - g].selected_index = Null
                     /\ ledger[3 - g].cost > 0

\* C29: in a cleanup_previews that is no dry run, a failure while deleting
\* one candidate does not stop the sweep: every later candidate is removed
\* from the preview area, and deleted_count plus the number of reported
\* errors is the number of candidates.
C29_SweepContinuesAfterFailure ==
  [][(SweepCalled /\ last'.outcome = "ok")
       => LET sw == last'.sweep
          IN /\ sw.deleted_count[1] + Len(sw.errors) = Len(sw.candidates)
             /\ \A k \in 1..Len(sw.candidates) :
                  k # sw.failedAt
                    => \A j \in 1..Len(area'.entries) :
                         area'.entries[j].name # sw.candidates[k]]_vars

\* A sweep whose first candidate could not be deleted and that had more.
C29_Witness ==
  /\ last.op = "cleanup" /\ last.outcome = "ok"
  /\ last.sweep.failedAt = 1
  /\ Len(last.sweep.candidates) >= 2
  /\ last.sweep.deleted_count = Some(Len(last.sweep.candidates) - 1)
  /\ Len(last.sweep.errors) = 1

\* The preview directory of generation id, which generate_images names by
\* the instant of the call.
PreviewDirOf(id) == ledger[id].created_at

\* C30: cleanup_previews leaves the Ledger as it is; and a select_image on a
\* generation that was not selected and whose preview directory a sweep has
\* removed fails with PreviewMissing, uploading and changing nothing.
C30_SweepLeavesLedgerSelectFailsAfterIt ==
  [][/\ SweepCalled => ledger' = ledger
     /\ (/\ SelectCalled
         /\ Known(last'.args.generation_id)
         /\ ledger[last'.args.generation_id].selected_index = Null
         /\ last'.args.index
              \in 0..(Len(ledger[last'.args.generation_id].images) - 1)
         /\ PreviewDirOf(last'.args.generation_id) \notin dirs)
        => (last'.outcome = "PreviewMissing" /\ NoSelectEffects)]_vars

\* A select_image that failed with PreviewMissing on a generation with image
\* rows whose preview directory is gone with no selection made: a sweep
\* removed it.
C30_Witness ==
  /\ last.op = "select" /\ last.outcome = "PreviewMissing"
  /\ Len(ledger) >= last.args.generation_id
  /\ ledger[last.args.generation_id].selected_index = Null
  /\ ledger[last.args.generation_id].images # <<>>
  /\ ledger[last.args.generation_id].created_at \notin dirs
  /\ blob = <<>>

\* The generation rows of a database all have the image rows they were
\* created with (the store is always handed `count` images here).
AllOrNothing(db) == \A g \in 1..Len(db) : Len(db[g].images) = db[g].count

\* C25: wherever the Ledger can be observed, in memory by getGeneration,
\* listGenerations and getCosts or in the database file, a generation row is
\* there with all of its image rows or not at all, also after a
\* createGeneration that failed in the image inserts or in the flush.
C25_CreateGenerationIsAtomic ==
  AllOrNothing(ledger) /\ AllOrNothing(init(disk).db)

\* Invocation i makes a side effect in this step: its upload lands, its
\* markSelected runs, or its cleanup loop removes a preview.
SideEffectBy(i) ==
  \/ running[i].pc = "uploading" /\ running'[i].pc = "uploaded"
  \/ running[i].pc = "uploaded" /\ running'[i].pc = "marked"
  \/ running[i].pc = "marked" /\ running'[i].pc = "done" /\ files' # files

\* Invocation j has uploaded and has its markSelected still to come.
MidEffects(j) == running[j].pc = "uploaded"

\* C26: tool invocations are processed one at a time: no side effect of one
\* select_image invocation falls between the upload and the markSelected of
\* another, so that of two select_image calls begun on the same generation
\* the second meets the effects of the first before it uploads.
C26_InvocationsDoNotInterleave ==
  [][\A i \in 1..Len(running), j \in 1..Len(running) :
       (i # j /\ MidEffects(j)) => ~SideEffectBy(i)]_vars

====
